---- MODULE Spec2Model ----
(***************************************************************************)
(* Model of tv-debug (src/main.rs): a diagnostic that fetches OHLCV        *)
(* candles for a time window and reports, for every expected candle        *)
(* timestamp in the window, whether the endpoint returned a candle.        *)
(*                                                                         *)
(* Timestamps are UNIX seconds.  The specifications share the actions:      *)
(*   Spec      test_time_period_for_api in Mode::Simple                    *)
(*   SpecRand  test_time_period_for_api in Mode::Randomized { limit }      *)
(*   SpecNorm  the conversion From<ApiResult> for StructuredApiResult      *)
(*   FairSpec  Spec with weak fairness on every step of the audit          *)
(***************************************************************************)
EXTENDS Integers, Sequences, FiniteSets

VARIABLES
    pc,                   \* position of the single async task
    mode,                 \* Mode: [kind, limit]
    lower_time_bound,     \* argument of test_time_period_for_api
    upper_time_bound,     \* argument of test_time_period_for_api
    resolution_minutes,   \* argument, u32
    vec,                  \* generate_random_time_periods: the Vec being built
    periods,              \* the windows the driver's for loop has not visited
    from,                 \* test_api_for_period argument
    to,                   \* test_api_for_period argument
    raw,                  \* the decoded ApiResult
    result,               \* StructuredApiResult: HashMap<Time, CandleData>
    time,                 \* next_normalized_time_for_resolution argument
    final_time,           \* next_normalized_time_for_resolution local
    next_normalized_time, \* test_api_for_period local
    verdicts              \* verdict log lines of the current window audit

vars == <<pc, mode, lower_time_bound, upper_time_bound, resolution_minutes,
          vec, periods, from, to, raw, result, time, final_time,
          next_normalized_time, verdicts>>

-----------------------------------------------------------------------------
(* Bounds of the model *)

MaxHours == 3        \* windows lie within [0, MaxHours] hours of the epoch
MaxLen == 2          \* longest raw column handed to the normalizer alone
MaxFetchLen == 2     \* longest raw time column returned to an audit
MaxLimit == 2        \* largest Randomized { limit }

(* chrono: seconds in an hour (and_hms_opt(hour, 0, 0)) and in a minute
   (TimeDelta::minutes) *)
SecsPerHour == 3600
SecsPerMinute == 60

\* offsets within the hour used for window bounds:
\* hh:00:00, hh:07:00, hh:45:00, hh:45:01
Offsets == {0, 420, 2700, 2701}

WindowTimes ==
    {h * SecsPerHour + o : h \in 0..(MaxHours - 1), o \in Offsets}
        \cup {MaxHours * SecsPerHour}

\* u32 resolutions exercised: zero, divisors of 60, a non-divisor, above 60
Resolutions == {0, 15, 20, 45, 60, 90}

\* the values the PRNG may return are sampled on this grid
DrawTimes == {0, 2700, 2 * SecsPerHour}

\* candle timestamps an endpoint may return: 00:45, 01:00, 01:30
KeyTimes == {2700, 3600, 5400}

Candle1 == [close |-> 10, open |-> 11, high |-> 12, low |-> 9, volume |-> 100]
Candle2 == [close |-> 20, open |-> 21, high |-> 22, low |-> 19, volume |-> 0]

Columns == {"close", "open", "high", "low", "volume"}

SeqsUpTo(S, n) == UNION {[1..k -> S] : k \in 0..n}

Column(rows, f) == [i \in 1..Len(rows) |-> rows[i][f]]

DropLast(s) == IF Len(s) = 0 THEN s ELSE SubSeq(s, 1, Len(s) - 1)

\* an ApiResult whose time column is `times`, whose other columns are the
\* columns of `rows`, the column named `short` having lost its last element
ApiResultOf(times, rows, short) ==
    [s |-> "ok",
     time |-> times,
     close |-> IF short = "close" THEN DropLast(Column(rows, "close"))
               ELSE Column(rows, "close"),
     open |-> IF short = "open" THEN DropLast(Column(rows, "open"))
              ELSE Column(rows, "open"),
     high |-> IF short = "high" THEN DropLast(Column(rows, "high"))
              ELSE Column(rows, "high"),
     low |-> IF short = "low" THEN DropLast(Column(rows, "low"))
             ELSE Column(rows, "low"),
     volume |-> IF short = "volume" THEN DropLast(Column(rows, "volume"))
                ELSE Column(rows, "volume")]

ApiResults(candles, n) ==
    {ApiResultOf(times, rows, short) :
        times \in SeqsUpTo(KeyTimes, n),
        rows \in SeqsUpTo(candles, n),
        short \in Columns \cup {"none"}}

RawResponses == ApiResults({Candle1, Candle2}, MaxLen)

FetchResponses == ApiResults({Candle1}, MaxFetchLen)

NoApiResult ==
    [s |-> "none", time |-> <<>>, close |-> <<>>, open |-> <<>>,
     high |-> <<>>, low |-> <<>>, volume |-> <<>>]

EqualLengths(value) ==
    \A f \in Columns : Len(value[f]) = Len(value.time)

-----------------------------------------------------------------------------
(* impl From<ApiResult> for StructuredApiResult *)

EmptyMap == <<>>

Keys(hmap) == DOMAIN hmap

\* an emptiness test that never reports an empty map
IsEmptyNever(hmap) == FALSE

IsEmpty(hmap) == Keys(hmap) = {}

\* an insert that keeps the entry already stored under the key
InsertKeepFirst(hmap, k, v) ==
    [x \in Keys(hmap) \cup {k} |-> IF x \in Keys(hmap) THEN hmap[x] ELSE v]

\* HashMap::insert: an existing key is overwritten
Insert(hmap, k, v) ==
    [x \in Keys(hmap) \cup {k} |-> IF x = k THEN v ELSE hmap[x]]

CandleAt(value, i) ==
    [close |-> value.close[i], open |-> value.open[i], high |-> value.high[i],
     low |-> value.low[i], volume |-> value.volume[i]]

\* value.close[i] etc. panic when i is out of bounds
IndexPanics(value) ==
    \E i \in 1..Len(value.time) : \E f \in Columns : i > Len(value[f])

RECURSIVE FromIter(_, _, _)
FromIter(value, i, hmap) ==
    IF i > Len(value.time) THEN hmap
    ELSE FromIter(value, i + 1, Insert(hmap, value.time[i], CandleAt(value, i)))

FromApiResult(value) == FromIter(value, 1, EmptyMap)

-----------------------------------------------------------------------------
(* next_normalized_time_for_resolution *)

\* NaiveDate::from_ymd_opt(y, m, d).and_hms_opt(hour, 0, 0) in UTC
FloorToHour(t) == t - (t % SecsPerHour)

\* the resolution added as seconds instead of minutes
AddSeconds(t, r) == t + r

\* checked_add_signed(TimeDelta::minutes(resolution_minutes as i64))
AddMinutes(t, r) == t + r * SecsPerMinute

\* the stepping loop stopping as soon as final_time reaches time
InnerLoopCondStrict(ft, t) == ft < t

\* while final_time.timestamp() <= time.timestamp()
InnerLoopCond(ft, t) == ft <= t

\* the audit loop running up to and including to_utc
OuterLoopCondInclusive(nt, to_utc) == nt <= to_utc

\* while next_normalized_time < to_utc
OuterLoopCond(nt, to_utc) == nt < to_utc

-----------------------------------------------------------------------------
(* generate_random_time_periods *)

\* rng.gen_range(lower..=upper)
GenStartRange(lower_ts, upper_ts) ==
    {t \in DrawTimes : lower_ts <= t /\ t <= upper_ts}

\* the end drawn from the whole range below upper, whatever the start
GenEndRangeAny(start, upper_ts) ==
    {t \in DrawTimes : t <= upper_ts}

\* rng.gen_range(start..=upper)
GenEndRange(start, upper_ts) ==
    {t \in DrawTimes : start <= t /\ t <= upper_ts}

-----------------------------------------------------------------------------
(* Initial states *)

SimpleMode == [kind |-> "Simple", limit |-> 0]
RandomizedMode(limit) == [kind |-> "Randomized", limit |-> limit]

InitLocals ==
    /\ vec = <<>>
    /\ periods = <<>>
    /\ from = 0
    /\ to = 0
    /\ raw = NoApiResult
    /\ result = EmptyMap
    /\ time = 0
    /\ final_time = 0
    /\ next_normalized_time = 0
    /\ verdicts = <<>>

Init ==
    /\ pc = "start"
    /\ mode = SimpleMode
    /\ lower_time_bound \in WindowTimes
    /\ upper_time_bound \in {t \in WindowTimes : lower_time_bound <= t}
    /\ resolution_minutes \in Resolutions
    /\ InitLocals

InitRand ==
    /\ pc = "start"
    /\ mode \in {RandomizedMode(l) : l \in 0..MaxLimit}
    /\ lower_time_bound \in DrawTimes
    /\ upper_time_bound \in {t \in DrawTimes : lower_time_bound <= t}
    /\ resolution_minutes \in {45, 60}
    /\ InitLocals

InitNorm ==
    /\ pc = "normalize"
    /\ mode = SimpleMode
    /\ lower_time_bound = 0
    /\ upper_time_bound = 0
    /\ resolution_minutes = 60
    /\ vec = <<>>
    /\ periods = <<>>
    /\ from = 0
    /\ to = 0
    /\ raw \in RawResponses
    /\ result = EmptyMap
    /\ time = 0
    /\ final_time = 0
    /\ next_normalized_time = 0
    /\ verdicts = <<>>

-----------------------------------------------------------------------------
(* test_time_period_for_api *)

\* entry of test_api_for_period(resolution_minutes, f, t)
EnterWindow(f, t) ==
    /\ from' = f
    /\ to' = t
    /\ raw' = NoApiResult
    /\ result' = EmptyMap
    /\ time' = 0
    /\ final_time' = 0
    /\ next_normalized_time' = 0
    /\ verdicts' = <<>>
    /\ pc' = "fetch"

StartSimple ==
    /\ pc = "start"
    /\ mode.kind = "Simple"
    /\ EnterWindow(lower_time_bound, upper_time_bound)
    /\ UNCHANGED <<mode, lower_time_bound, upper_time_bound,
                   resolution_minutes, vec, periods>>

StartRandomized ==
    /\ pc = "start"
    /\ mode.kind = "Randomized"
    /\ vec' = <<>>
    /\ pc' = "gen"
    /\ UNCHANGED <<mode, lower_time_bound, upper_time_bound,
                   resolution_minutes, periods, from, to, raw, result, time,
                   final_time, next_normalized_time, verdicts>>

\* one iteration of `for _ in 0..limit`
GenPush ==
    /\ pc = "gen"
    /\ Len(vec) < mode.limit
    /\ \E start \in GenStartRange(lower_time_bound, upper_time_bound) :
         \E end \in GenEndRange(start, upper_time_bound) :
            vec' = Append(vec, <<start, end>>)
    /\ UNCHANGED <<pc, mode, lower_time_bound, upper_time_bound,
                   resolution_minutes, periods, from, to, raw, result, time,
                   final_time, next_normalized_time, verdicts>>

GenReturn ==
    /\ pc = "gen"
    /\ ~(Len(vec) < mode.limit)
    /\ periods' = vec
    /\ pc' = "for"
    /\ UNCHANGED <<mode, lower_time_bound, upper_time_bound,
                   resolution_minutes, vec, from, to, raw, result, time,
                   final_time, next_normalized_time, verdicts>>

\* `for (from, to) in periods`
ForNext ==
    /\ pc = "for"
    /\ periods # <<>>
    /\ periods' = Tail(periods)
    /\ EnterWindow(Head(periods)[1], Head(periods)[2])
    /\ UNCHANGED <<mode, lower_time_bound, upper_time_bound,
                   resolution_minutes, vec>>

ForEnd ==
    /\ pc = "for"
    /\ periods = <<>>
    /\ pc' = "finished"
    /\ UNCHANGED <<mode, lower_time_bound, upper_time_bound,
                   resolution_minutes, vec, periods, from, to, raw, result,
                   time, final_time, next_normalized_time, verdicts>>

\* test_api_for_period returned Ok(()) to the driver
ReturnSimple ==
    /\ pc = "done"
    /\ mode.kind = "Simple"
    /\ pc' = "finished"
    /\ UNCHANGED <<mode, lower_time_bound, upper_time_bound,
                   resolution_minutes, vec, periods, from, to, raw, result,
                   time, final_time, next_normalized_time, verdicts>>

ReturnRandomized ==
    /\ pc = "done"
    /\ mode.kind = "Randomized"
    /\ pc' = "for"
    /\ UNCHANGED <<mode, lower_time_bound, upper_time_bound,
                   resolution_minutes, vec, periods, from, to, raw, result,
                   time, final_time, next_normalized_time, verdicts>>

-----------------------------------------------------------------------------
(* test_api_for_period *)

\* reqwest::get(url).await?.json::<ApiResult>().await? succeeded
Fetch ==
    /\ pc = "fetch"
    /\ raw' \in FetchResponses
    /\ pc' = "normalize"
    /\ UNCHANGED <<mode, lower_time_bound, upper_time_bound,
                   resolution_minutes, vec, periods, from, to, result, time,
                   final_time, next_normalized_time, verdicts>>

\* transport or decode error, propagated by `?`
FetchFail ==
    /\ pc = "fetch"
    /\ pc' = "failed"
    /\ UNCHANGED <<mode, lower_time_bound, upper_time_bound,
                   resolution_minutes, vec, periods, from, to, raw, result,
                   time, final_time, next_normalized_time, verdicts>>

\* .into()
Normalize ==
    /\ pc = "normalize"
    /\ ~IndexPanics(raw)
    /\ result' = FromApiResult(raw)
    /\ pc' = "check_empty"
    /\ UNCHANGED <<mode, lower_time_bound, upper_time_bound,
                   resolution_minutes, vec, periods, from, to, raw, time,
                   final_time, next_normalized_time, verdicts>>

NormalizePanic ==
    /\ pc = "normalize"
    /\ IndexPanics(raw)
    /\ pc' = "panicked"
    /\ UNCHANGED <<mode, lower_time_bound, upper_time_bound,
                   resolution_minutes, vec, periods, from, to, raw, result,
                   time, final_time, next_normalized_time, verdicts>>

\* if result.0.is_empty() { return Ok(()) }
NoResults ==
    /\ pc = "check_empty"
    /\ IsEmpty(result)
    /\ pc' = "done"
    /\ UNCHANGED <<mode, lower_time_bound, upper_time_bound,
                   resolution_minutes, vec, periods, from, to, raw, result,
                   time, final_time, next_normalized_time, verdicts>>

\* call next_normalized_time_for_resolution(from_utc, resolution_minutes)
FirstCall ==
    /\ pc = "check_empty"
    /\ ~IsEmpty(result)
    /\ time' = from
    /\ final_time' = FloorToHour(from)
    /\ pc' = "inner"
    /\ UNCHANGED <<mode, lower_time_bound, upper_time_bound,
                   resolution_minutes, vec, periods, from, to, raw, result,
                   next_normalized_time, verdicts>>

InnerStep ==
    /\ pc = "inner"
    /\ InnerLoopCond(final_time, time)
    /\ final_time' = AddMinutes(final_time, resolution_minutes)
    /\ UNCHANGED <<pc, mode, lower_time_bound, upper_time_bound,
                   resolution_minutes, vec, periods, from, to, raw, result,
                   time, next_normalized_time, verdicts>>

InnerReturn ==
    /\ pc = "inner"
    /\ ~InnerLoopCond(final_time, time)
    /\ next_normalized_time' = final_time
    /\ pc' = "outer"
    /\ UNCHANGED <<mode, lower_time_bound, upper_time_bound,
                   resolution_minutes, vec, periods, from, to, raw, result,
                   time, final_time, verdicts>>

Verdict(ts) ==
    [ts |-> ts,
     verdict |-> IF ts \in Keys(result) THEN "PRESENT" ELSE "ABSENT"]

\* loop body: log the verdict, then call
\* next_normalized_time_for_resolution(next_normalized_time, resolution_minutes)
OuterIter ==
    /\ pc = "outer"
    /\ OuterLoopCond(next_normalized_time, to)
    /\ verdicts' = Append(verdicts, Verdict(next_normalized_time))
    /\ time' = next_normalized_time
    /\ final_time' = FloorToHour(next_normalized_time)
    /\ pc' = "inner"
    /\ UNCHANGED <<mode, lower_time_bound, upper_time_bound,
                   resolution_minutes, vec, periods, from, to, raw, result,
                   next_normalized_time>>

OuterExit ==
    /\ pc = "outer"
    /\ ~OuterLoopCond(next_normalized_time, to)
    /\ pc' = "done"
    /\ UNCHANGED <<mode, lower_time_bound, upper_time_bound,
                   resolution_minutes, vec, periods, from, to, raw, result,
                   time, final_time, next_normalized_time, verdicts>>

-----------------------------------------------------------------------------
(* Specifications *)

Next ==
    \/ StartSimple
    \/ ReturnSimple
    \/ Fetch
    \/ FetchFail
    \/ Normalize
    \/ NormalizePanic
    \/ NoResults
    \/ FirstCall
    \/ InnerStep
    \/ InnerReturn
    \/ OuterIter
    \/ OuterExit

Spec == Init /\ [][Next]_vars

NextRand ==
    \/ StartRandomized
    \/ GenPush
    \/ GenReturn
    \/ ForNext
    \/ ForEnd
    \/ ReturnRandomized
    \/ Fetch
    \/ FetchFail
    \/ Normalize
    \/ NormalizePanic
    \/ NoResults
    \/ FirstCall
    \/ InnerStep
    \/ InnerReturn
    \/ OuterIter
    \/ OuterExit

SpecRand == InitRand /\ [][NextRand]_vars

NextNorm ==
    \/ Normalize
    \/ NormalizePanic

SpecNorm == InitNorm /\ [][NextNorm]_vars

\* test_api_for_period under the scheduling of the async runtime: a task that
\* can take a step eventually takes it
FairSpec == Spec /\ WF_vars(Next)

-----------------------------------------------------------------------------
(* Properties *)

Terminal == {"finished", "failed", "panicked"}

\* the window audit is past the conversion of the response
PastNormalize == {"check_empty", "inner", "outer", "done", "finished"}

\* the UTC instant with the date and hour of t, minute = second = 0
TopOfHour(t) ==
    CHOOSE h \in {k * SecsPerHour : k \in 0..(MaxHours + 1)} :
        h <= t /\ t < h + SecsPerHour

StepSecs == resolution_minutes * SecsPerMinute

VerdictTimes == {verdicts[i].ts : i \in 1..Len(verdicts)}

\* expected(from, to, r) of the specification, for r >= 1:
\* seed + k * r * 60, k >= 1, strictly between from and to
ExpectedTimes ==
    IF resolution_minutes = 0 THEN {}
    ELSE {t \in {TopOfHour(from) + k * StepSecs :
                    k \in 1..((to - TopOfHour(from)) \div StepSecs + 1)} :
            from < t /\ t < to}

CeilDiv(a, b) == (a + b - 1) \div b

\* C1: every timestamp that gets a verdict lies strictly between from and to,
\* and a window with from = to gets no verdict.
C1_StrictInterior ==
    /\ \A i \in 1..Len(verdicts) : from < verdicts[i].ts /\ verdicts[i].ts < to
    /\ (from = to => verdicts = <<>>)

\* an audit of a window starting on the hour ran to the end, stopping at a
\* candidate equal to `to`
C1_Witness ==
    /\ pc = "done"
    /\ Len(verdicts) >= 2
    /\ from = TopOfHour(from)
    /\ next_normalized_time = to

\* C2: two consecutive timestamps audited in one window differ by exactly
\* r * 60 seconds.
C2_Uniform ==
    \A i \in 1..(Len(verdicts) - 1) :
        verdicts[i + 1].ts - verdicts[i].ts = StepSecs

\* C3: the first candidate, next_normalized_time_for_resolution(from, r), is
\* floor_to_hour(from) + k * r * 60 for the smallest k >= 1 that exceeds from.
C3_HourAnchoredFirst ==
    (pc = "outer" /\ verdicts = <<>>) =>
        \E k \in 1..(SecsPerHour \div SecsPerMinute + 1) :
            /\ next_normalized_time = TopOfHour(from) + k * StepSecs
            /\ next_normalized_time > from
            /\ \A j \in 1..(k - 1) : TopOfHour(from) + j * StepSecs <= from
            /\ (k > 1 => next_normalized_time - StepSecs <= from)

\* the first call returned after more than one step from an unaligned `from`
C3_Witness ==
    /\ pc = "outer"
    /\ verdicts = <<>>
    /\ from # TopOfHour(from)
    /\ next_normalized_time - TopOfHour(from) > StepSecs

\* C4: with a non-empty normalized response the finished audit has one verdict
\* for each timestamp of expected(from, to, r) and for no other, PRESENT iff
\* the timestamp is a key of the response.
C4_VerdictTotality ==
    (pc = "done" /\ DOMAIN result # {}) =>
        /\ VerdictTimes = ExpectedTimes
        /\ Len(verdicts) = Cardinality(ExpectedTimes)
        /\ \A i \in 1..Len(verdicts) :
              verdicts[i].verdict = "PRESENT" <=> verdicts[i].ts \in DOMAIN result

\* C5: verdicts are in strictly increasing timestamp order, and every call of
\* next_normalized_time_for_resolution(t, r) returns a value greater than t.
C5_StrictlyIncreasing ==
    /\ \A i \in 1..(Len(verdicts) - 1) : verdicts[i].ts < verdicts[i + 1].ts
    /\ (pc = "outer" => next_normalized_time > time)
    /\ (pc = "outer" /\ verdicts # <<>> =>
            next_normalized_time > verdicts[Len(verdicts)].ts)

\* a later call has returned with several verdicts logged
C5_Witness ==
    /\ pc = "outer"
    /\ Len(verdicts) >= 3
    /\ time = verdicts[Len(verdicts)].ts

\* C6: an empty normalized response ends the window successfully with zero
\* verdicts, whatever the window and the resolution.
C6_EmptyResponseInvariance ==
    /\ [](pc \in {"inner", "outer"} => DOMAIN result # {})
    /\ []((pc \in {"done", "finished"} /\ DOMAIN result = {}) => verdicts = <<>>)
    /\ [][(pc = "check_empty" /\ DOMAIN result = {}) =>
              (pc' = "done" /\ verdicts' = <<>>)]_vars

\* an empty response ended a window that has expected timestamps
C6_Witness ==
    /\ pc = "done"
    /\ raw.s = "ok"
    /\ raw.time = <<>>
    /\ DOMAIN result = {}
    /\ ExpectedTimes # {}
    /\ verdicts = <<>>

\* C7: a response whose six sequences differ in length never gets past
\* normalization.
C7_SchemaError ==
    ~EqualLengths(raw) => pc \notin PastNormalize

\* the index of the last occurrence of t in the time column
LastIndex(value, t) ==
    CHOOSE i \in 1..Len(value.time) :
        /\ value.time[i] = t
        /\ \A j \in (i + 1)..Len(value.time) : value.time[j] # t

\* C8: for equal-length columns the keys of normalize(raw) are the values of
\* raw.time, and each key stores the cross-section at its last index.
C8_RoundTripLastWriteWins ==
    (pc = "check_empty" /\ EqualLengths(raw)) =>
        /\ DOMAIN result = {raw.time[i] : i \in 1..Len(raw.time)}
        /\ \A t \in DOMAIN result :
              /\ result[t].open = raw.open[LastIndex(raw, t)]
              /\ result[t].high = raw.high[LastIndex(raw, t)]
              /\ result[t].low = raw.low[LastIndex(raw, t)]
              /\ result[t].close = raw.close[LastIndex(raw, t)]
              /\ result[t].volume = raw.volume[LastIndex(raw, t)]

\* a response with a duplicated timestamp carrying two different candles
C8_Witness ==
    /\ pc = "check_empty"
    /\ EqualLengths(raw)
    /\ Len(raw.time) >= 2
    /\ raw.time[1] = raw.time[2]
    /\ raw.close[1] # raw.close[2]

\* C9: generate_random_time_periods returns exactly limit windows, each with
\* lower <= start <= end <= upper, so every audited window has from <= to.
C9_RandomizedBounds ==
    /\ \A i \in 1..Len(vec) :
          /\ lower_time_bound <= vec[i][1]
          /\ vec[i][1] <= vec[i][2]
          /\ vec[i][2] <= upper_time_bound
    /\ (pc \notin {"start", "gen"} => Len(vec) = mode.limit)
    /\ (pc \notin {"start", "gen", "for"} => from <= to)

\* a generated window strictly inside the bounds is being audited
C9_Witness ==
    /\ pc = "fetch"
    /\ Len(vec) >= 2
    /\ lower_time_bound < from
    /\ to < upper_time_bound

\* C10: a window audit with a non-empty response reaches DONE after at most
\* ceil((to - floor_to_hour(from)) / (r * 60)) verdicts.
C10_VerdictBound ==
    (pc = "done" /\ DOMAIN result # {} /\ resolution_minutes >= 1) =>
        Len(verdicts) <= CeilDiv(to - TopOfHour(from), StepSecs)

\* every run of the driver ends
Terminates == <>(pc \in Terminal)

\* every run with a positive resolution ends
TerminatesPositive == (resolution_minutes >= 1) => <>(pc \in Terminal)

====
